---- MODULE Spec2Model ----
(***************************************************************************)
(* Model of the class-feedback application (src/app.py): the Identity      *)
(* Store (User), the Feedback Store (Feedback), the per-client session,   *)
(* and the request handlers login, set_password, logout, dashboard and    *)
(* give_feedback.                                                          *)
(*                                                                         *)
(* Strings that the code transforms (emails, feedback contents) are       *)
(* sequences of one-character strings, so that strip() and lower() are    *)
(* computed.  Python's None is the value None for an absent form field,   *)
(* NoId for an absent user or row id (ids start at 1), NoHash for a NULL  *)
(* password_hash and NoRequest for a client with no request in progress.  *)
(***************************************************************************)
EXTENDS Integers, Sequences, FiniteSets, TLC

None == "None"

NoId == 0

NoHash == [salt |-> None, digest |-> <<>>]

\* ---------------------------------------------------------------- bounds
MaxTime == 1      \* the clock (datetime.utcnow) runs over 0..MaxTime
MaxId   == 2      \* at most MaxId INSERTs into the feedback table

\* ---------------------------------------------------------------- inputs
Sessions == {"c1", "c2"}

\* form values of POST /login and POST /set-password
EmailForms == { <<"a">>, <<" ", "B">>, <<"z">> }

PasswordForms == { "", "p", "q" }

Salts == { "s1", "s2" }

\* form values of POST /give-feedback: user 2 is another user to user 1 and
\* the sender itself to user 2; no user has id 3
RecipientForms == { None, "2", "3" }

ContentForms == { <<" ">>, <<"x">>, <<"y", " ">> }

VisibleForms == { None, "on" }

\* ---------------------------------------------------------------- state
VARIABLES users,      \* Identity Store: user id -> [email, password_hash]
          feedback,   \* Feedback Store: set of Feedback rows
          nextId,     \* next value of the feedback id sequence
          session,    \* client -> [user_id, pre_user_id]
          req,        \* client -> give_feedback POST between lookup and commit
          now,        \* the clock
          response    \* the last response sent: [client, result]

vars == <<users, feedback, nextId, session, req, now, response>>

\* ---------------------------------------------------------------- strings
IsSpace(c) == c = " "

RECURSIVE LStrip(_)
LStrip(s) == IF s # <<>> /\ IsSpace(Head(s)) THEN LStrip(Tail(s)) ELSE s

RECURSIVE RStrip(_)
RStrip(s) == IF s # <<>> /\ IsSpace(s[Len(s)])
             THEN RStrip(SubSeq(s, 1, Len(s) - 1)) ELSE s

Strip(s) == RStrip(LStrip(s))

LowerChar(c) == CASE c = "A" -> "a"
                  [] c = "B" -> "b"
                  [] OTHER   -> c

Lower(s) == [i \in 1..Len(s) |-> LowerChar(s[i])]

\* int(request.form.get('recipient_id')): None and non-numeric text raise
IsInt(f) == f \in {"1", "2", "3"}

ToInt(f) == CASE f = "1" -> 1
              [] f = "2" -> 2
              [] f = "3" -> 3

\* bool(request.form.get('visible'))
ToBool(f) == f # None /\ f # ""

\* Python truthiness of an optional string, of an optional id
Truthy(v) == v # None /\ v # ""

TruthyId(v) == v # NoId

\* ---------------------------------------------------------------- User
SeedUsers == (1 :> [email |-> <<"a">>, password_hash |-> NoHash]) @@
             (2 :> [email |-> <<"b">>, password_hash |-> NoHash])

\* werkzeug generate_password_hash: salted one-way digest
Digest(salt, raw) == <<salt, raw>>

generate_password_hash(raw, salt) == [salt |-> salt, digest |-> Digest(salt, raw)]

check_password_hash(h, raw) == Digest(h.salt, raw) = h.digest

\* User.check_password
check_password(u, raw) ==
    IF users[u].password_hash = NoHash THEN FALSE
    ELSE check_password_hash(users[u].password_hash, raw)

\* User.query.filter_by(email=email).first(): email is unique
UserByEmail(email) ==
    IF \E u \in DOMAIN users : users[u].email = email
    THEN CHOOSE u \in DOMAIN users : users[u].email = email
    ELSE NoId

\* User.query.get(uid)
UserGet(uid) == IF uid \in DOMAIN users THEN uid ELSE NoId

\* current_user()
current_user(s) ==
    IF ~TruthyId(session[s].user_id) THEN NoId ELSE UserGet(session[s].user_id)

Respond(s, result) == response' = [client |-> s, result |-> result]

\* ---------------------------------------------------------------- Init
EmptySession == [user_id |-> NoId, pre_user_id |-> NoId]

NoRequest == [sender |-> NoId, recipient |-> NoId, content |-> <<>>,
              visible |-> FALSE, existing |-> NoId]

Init ==
    /\ users = SeedUsers
    /\ feedback = {}
    /\ nextId = 1
    /\ session = [s \in Sessions |-> EmptySession]
    /\ req = [s \in Sessions |-> NoRequest]
    /\ now = 0
    /\ response = [client |-> None, result |-> None]

\* ---------------------------------------------------------------- login
\* the outcome of POST /login, before any session write
LoginResult(emailForm, passwordForm) ==
    LET email == Lower(Strip(emailForm))
        user  == UserByEmail(email)
        password == IF passwordForm = None THEN "" ELSE passwordForm
    IN  IF user = NoId THEN [result |-> "UnknownEmail", user |-> NoId]
        ELSE IF users[user].password_hash = NoHash
             THEN [result |-> "ToSetPassword", user |-> user]
        ELSE IF check_password(user, password)
             THEN [result |-> "LoggedIn", user |-> user]
        ELSE [result |-> "InvalidCredential", user |-> user]

\* (mutant) the session is bound before the password is checked
LoginSessionBoundBeforeCheck(se, res) ==
    CASE res.result = "ToSetPassword" -> [se EXCEPT !.pre_user_id = res.user]
      [] res.result \in {"LoggedIn", "InvalidCredential"}
                                      -> [se EXCEPT !.user_id = res.user]
      [] OTHER                        -> se

\* the session after POST /login
LoginSession(se, res) ==
    CASE res.result = "ToSetPassword" -> [se EXCEPT !.pre_user_id = res.user]
      [] res.result = "LoggedIn"      -> [se EXCEPT !.user_id = res.user]
      [] OTHER                        -> se

Login(s, emailForm, passwordForm) ==
    LET res == LoginResult(emailForm, passwordForm)
    IN  /\ session' = [session EXCEPT ![s] = LoginSession(session[s], res)]
        /\ Respond(s, res.result)
        /\ UNCHANGED <<users, feedback, nextId, req, now>>

\* ---------------------------------------------------------------- set_password
\* "not p1 or p1 != p2"
PasswordsRejected(p1, p2) == ~Truthy(p1) \/ p1 # p2

\* the outcome of /set-password, before any write
SetPasswordResult(se, method, p1, p2) ==
    LET pre_id == se.pre_user_id
    IN  IF ~TruthyId(pre_id) THEN "NoEmailSelected"
        ELSE IF UserGet(pre_id) = NoId THEN "UserNotFound"
        ELSE IF method # "POST" THEN "SetPasswordForm"
        ELSE IF PasswordsRejected(p1, p2) THEN "PasswordMismatch"
        ELSE "PasswordSet"

SetPassword(s, method, p1, p2, salt) ==
    LET res == SetPasswordResult(session[s], method, p1, p2)
        u   == session[s].pre_user_id
    IN  /\ IF res = "PasswordSet"
           THEN /\ users' = [users EXCEPT ![u].password_hash =
                                              generate_password_hash(p1, salt)]
                /\ session' = [session EXCEPT ![s] =
                                  [user_id |-> u, pre_user_id |-> NoId]]
           ELSE UNCHANGED <<users, session>>
        /\ Respond(s, res)
        /\ UNCHANGED <<feedback, nextId, req, now>>

\* ---------------------------------------------------------------- logout
\* session.pop('user_id', None)
LogoutSession(se) == [se EXCEPT !.user_id = NoId]

Logout(s) ==
    /\ session' = [session EXCEPT ![s] = LogoutSession(session[s])]
    /\ Respond(s, "LoggedOut")
    /\ UNCHANGED <<users, feedback, nextId, req, now>>

\* ---------------------------------------------------------------- dashboard
Dashboard(s) ==
    /\ Respond(s, IF current_user(s) = NoId THEN "NotAuthenticated" ELSE "Dashboard")
    /\ UNCHANGED <<users, feedback, nextId, session, req, now>>

\* ---------------------------------------------------------------- give_feedback
\* (mutant) the two filter arguments swapped
MatchingSwapped(fb, sender, recipient) ==
    {f \in fb : f.sender_id = recipient /\ f.recipient_id = sender}

\* Feedback.query.filter_by(sender_id=..., recipient_id=...)
Matching(fb, sender, recipient) ==
    {f \in fb : f.sender_id = sender /\ f.recipient_id = recipient}

\* .first() without ORDER BY: any of the matching rows, None when there is none
FirstChoices(rows) == IF rows = {} THEN {NoId} ELSE {f.id : f \in rows}

\* (mutant) the columns declared without db.ForeignKey
ForeignKeysUnchecked(sender, recipient) == TRUE

\* (mutant) a unique constraint on (sender_id, recipient_id) beside the keys
ForeignKeysAndUniquePair(sender, recipient) ==
    /\ sender \in DOMAIN users /\ recipient \in DOMAIN users
    /\ \A f \in feedback : ~(f.sender_id = sender /\ f.recipient_id = recipient)

\* db.ForeignKey('user.id') on sender_id and recipient_id
ForeignKeysOk(sender, recipient) ==
    sender \in DOMAIN users /\ recipient \in DOMAIN users

\* (mutant) the visibility flag is not written
UpdateRowContentOnly(f, content, visible) == [f EXCEPT !.content = content]

\* (mutant) the update also stamps the row with the current time
UpdateRowStamped(f, content, visible) ==
    [f EXCEPT !.content = content, !.visible = visible, !.created_at = now]

\* existing.content = content; existing.visible = visible
UpdateRow(f, content, visible) ==
    [f EXCEPT !.content = content, !.visible = visible]

\* Feedback(sender_id=, recipient_id=, content=, visible=), created_at default
NewRow(id, sender, recipient, content, visible, t) ==
    [id |-> id, sender_id |-> sender, recipient_id |-> recipient,
     content |-> content, visible |-> visible, created_at |-> t]

\* the part of give_feedback before the existence lookup
FeedbackCheck(s, method, rf, cf) ==
    IF current_user(s) = NoId THEN "NotAuthenticated"
    ELSE IF method # "POST" THEN "GiveFeedbackPage"
    ELSE IF ~IsInt(rf) THEN "ServerError"
    ELSE IF Strip(cf) = <<>> THEN "EmptyContent"
    ELSE "Lookup"

\* the request as it stands after the existence lookup
Request(s, rf, cf, vf, existing) ==
    [sender |-> current_user(s), recipient |-> ToInt(rf), content |-> Strip(cf),
     visible |-> ToBool(vf), existing |-> existing]

\* the branch taken on "if existing" and what db.session.commit() makes of it
CommitResult(r) ==
    IF r.existing # NoId THEN "FeedbackUpdated"
    ELSE IF ForeignKeysOk(r.sender, r.recipient) THEN "FeedbackSent"
    ELSE "ServerError"

CommitStore(fb, r, id, t) ==
    CASE CommitResult(r) = "FeedbackUpdated" ->
             {IF f.id = r.existing THEN UpdateRow(f, r.content, r.visible) ELSE f
                 : f \in fb}
      [] CommitResult(r) = "FeedbackSent" ->
             fb \cup {NewRow(id, r.sender, r.recipient, r.content, r.visible, t)}
      [] OTHER -> fb

\* an INSERT draws from the id sequence, also when the row is then refused
CommitNextId(r, id) == IF r.existing = NoId THEN id + 1 ELSE id

CanCommit(r) == r.existing = NoId => nextId <= MaxId

\* lines 166-182: up to and including the existence lookup
GiveFeedbackBegin(s, method, rf, cf, vf) ==
    LET chk == FeedbackCheck(s, method, rf, cf)
    IN  /\ req[s] = NoRequest
        /\ IF chk = "Lookup"
           THEN \E existing \in FirstChoices(Matching(feedback, current_user(s), ToInt(rf))) :
                    /\ req' = [req EXCEPT ![s] = Request(s, rf, cf, vf, existing)]
                    /\ Respond(s, "InFlight")
           ELSE /\ Respond(s, chk)
                /\ UNCHANGED req
        /\ UNCHANGED <<users, feedback, nextId, session, now>>

\* lines 183-193: the branch on the lookup's result, and the commit
GiveFeedbackCommit(s) ==
    /\ req[s] # NoRequest
    /\ CanCommit(req[s])
    /\ feedback' = CommitStore(feedback, req[s], nextId, now)
    /\ nextId' = CommitNextId(req[s], nextId)
    /\ req' = [req EXCEPT ![s] = NoRequest]
    /\ Respond(s, CommitResult(req[s]))
    /\ UNCHANGED <<users, session, now>>

\* the whole request, run to completion with no other request in between
GiveFeedback(s, method, rf, cf, vf) ==
    LET chk == FeedbackCheck(s, method, rf, cf)
    IN  /\ req[s] = NoRequest
        /\ IF chk = "Lookup"
           THEN \E existing \in FirstChoices(Matching(feedback, current_user(s), ToInt(rf))) :
                  LET r == Request(s, rf, cf, vf, existing)
                  IN  /\ CanCommit(r)
                      /\ feedback' = CommitStore(feedback, r, nextId, now)
                      /\ nextId' = CommitNextId(r, nextId)
                      /\ Respond(s, CommitResult(r))
           ELSE /\ Respond(s, chk)
                /\ UNCHANGED <<feedback, nextId>>
        /\ UNCHANGED <<users, session, req, now>>

\* ---------------------------------------------------------------- clock
Tick ==
    /\ now < MaxTime
    /\ now' = now + 1
    /\ UNCHANGED <<users, feedback, nextId, session, req, response>>

\* ---------------------------------------------------------------- specifications
LoginStep ==
    \E s \in Sessions, e \in EmailForms, p \in PasswordForms : Login(s, e, p)

SetPasswordStep ==
    \E s \in Sessions :
        \/ \E salt \in Salts : SetPassword(s, "GET", None, None, salt)
        \/ \E p1, p2 \in PasswordForms, salt \in Salts :
               SetPassword(s, "POST", p1, p2, salt)

\* The authentication flow from the freshly seeded database.  Feedback is
\* submitted to the second user only, visible, with blank content or "x", so
\* that the store stays small.
NextAuth ==
    \/ LoginStep
    \/ SetPasswordStep
    \/ \E s \in Sessions : Logout(s)
    \/ \E s \in Sessions : Dashboard(s)
    \/ \E s \in Sessions, cf \in {<<" ">>, <<"x">>} :
           GiveFeedback(s, "POST", "2", cf, "on")

SpecAuth == Init /\ [][NextAuth]_vars

\* The state after c1 went through first login as user 1 (password "p") and
\* c2 as user 2 (password "q"): reachable under SpecAuth.
InitSeq ==
    /\ users = (1 :> [email |-> <<"a">>,
                      password_hash |-> generate_password_hash("p", "s1")]) @@
               (2 :> [email |-> <<"b">>,
                      password_hash |-> generate_password_hash("q", "s1")])
    /\ feedback = {}
    /\ nextId = 1
    /\ session = ("c1" :> [user_id |-> 1, pre_user_id |-> NoId]) @@
                 ("c2" :> [user_id |-> 2, pre_user_id |-> NoId])
    /\ req = [s \in Sessions |-> NoRequest]
    /\ now = 0
    /\ response = [client |-> "c2", result |-> "PasswordSet"]

\* each request runs to completion before the next starts
NextSeq ==
    \/ \E s \in Sessions : GiveFeedback(s, "GET", None, <<>>, None)
    \/ \E s \in Sessions, rf \in RecipientForms, cf \in ContentForms,
          vf \in VisibleForms : GiveFeedback(s, "POST", rf, cf, vf)
    \/ Tick

SpecSeq == InitSeq /\ [][NextSeq]_vars

\* The state after c1 went through first login as user 1 (password "p") and
\* c2 logged in as user 1 with that password: reachable under SpecAuth.
InitRace ==
    /\ users = (1 :> [email |-> <<"a">>,
                      password_hash |-> generate_password_hash("p", "s1")]) @@
               (2 :> [email |-> <<"b">>, password_hash |-> NoHash])
    /\ feedback = {}
    /\ nextId = 1
    /\ session = [s \in Sessions |-> [user_id |-> 1, pre_user_id |-> NoId]]
    /\ req = [s \in Sessions |-> NoRequest]
    /\ now = 0
    /\ response = [client |-> "c2", result |-> "LoggedIn"]

\* requests interleave: another request may run between lookup and commit
Next ==
    \/ \E s \in Sessions, rf \in RecipientForms, cf \in ContentForms,
          vf \in VisibleForms : GiveFeedbackBegin(s, "POST", rf, cf, vf)
    \/ \E s \in Sessions : GiveFeedbackCommit(s)

Spec == InitRace /\ [][Next]_vars

\* ---------------------------------------------------------------- claims

\* The row of the pair (sender, recipient), when there is exactly one
RowOf(fb, sender, recipient) == CHOOSE f \in Matching(fb, sender, recipient) : TRUE

SamePair(f, g) == f.sender_id = g.sender_id /\ f.recipient_id = g.recipient_id

\* C1: after any sequence of give-feedback requests that each run to
\* completion, the store holds at most one record per ordered
\* (sender, recipient) pair.
C1_AtMostOneRecordPerPair ==
    \A f, g \in feedback : SamePair(f, g) => f = g

\* two senders have a record each, and the last request was a resubmission
C1_Witness ==
    /\ response.result = "FeedbackUpdated"
    /\ \E f, g \in feedback : f.sender_id # g.sender_id

\* C2: a commit on the insert branch (its lookup found no record) adds a
\* record for the pair whatever the store holds by then, so when two
\* first-time requests for one pair both look up before either commits, the
\* first commit leaves one record for the pair and the second leaves two.
C2_InsertBranchAddsARecord ==
    [][\A s \in Sessions :
          LET r == req[s]
          IN  ( /\ GiveFeedbackCommit(s)
                /\ r.existing = NoId
                /\ r.recipient \in DOMAIN users )
              => /\ Cardinality(Matching(feedback', r.sender, r.recipient))
                      = Cardinality(Matching(feedback, r.sender, r.recipient)) + 1
                 /\ response'.result = "FeedbackSent"
      ]_vars

\* both requests have committed and the pair has two records
C2_Witness ==
    /\ \A s \in Sessions : req[s] = NoRequest
    /\ response.result = "FeedbackSent"
    /\ \E f, g \in feedback : SamePair(f, g) /\ f.id # g.id

\* C3 as stated: a second submission for a pair, with any non-empty content
\* y, leaves exactly one record for the pair, with the same id, content y,
\* the submitted visibility and a timestamp not earlier than before.
C3_SecondSubmissionStoresContentAsGiven ==
    [][\A s \in Sessions, rf \in RecipientForms, cf \in ContentForms,
          vf \in VisibleForms :
          LET sender == current_user(s)
              old    == RowOf(feedback, sender, ToInt(rf))
              new    == RowOf(feedback', sender, ToInt(rf))
          IN  ( /\ response'.client = s
                /\ sender # NoId /\ IsInt(rf) /\ cf # <<>>
                /\ Cardinality(Matching(feedback, sender, ToInt(rf))) = 1
                /\ GiveFeedback(s, "POST", rf, cf, vf) )
              => /\ Cardinality(Matching(feedback', sender, ToInt(rf))) = 1
                 /\ new.id = old.id
                 /\ new.content = cf
                 /\ new.visible = ToBool(vf)
                 /\ new.created_at >= old.created_at
      ]_vars

\* C3 as amended: a second submission for a pair, with content y that is
\* non-empty after trimming, leaves exactly one record for the pair, with
\* the same id, content y trimmed, the submitted visibility and a timestamp
\* not earlier than before; when the trimmed content and the visibility are
\* those of the record, the store is left as it was.
C3_SecondSubmissionStoresTrimmedContent ==
    [][\A s \in Sessions, rf \in RecipientForms, cf \in ContentForms,
          vf \in VisibleForms :
          LET sender == current_user(s)
              old    == RowOf(feedback, sender, ToInt(rf))
              new    == RowOf(feedback', sender, ToInt(rf))
          IN  ( /\ response'.client = s
                /\ sender # NoId /\ IsInt(rf) /\ Strip(cf) # <<>>
                /\ Cardinality(Matching(feedback, sender, ToInt(rf))) = 1
                /\ GiveFeedback(s, "POST", rf, cf, vf) )
              => /\ Cardinality(Matching(feedback', sender, ToInt(rf))) = 1
                 /\ new.id = old.id
                 /\ new.content = Strip(cf)
                 /\ new.visible = ToBool(vf)
                 /\ new.created_at >= old.created_at
                 /\ (Strip(cf) = old.content /\ ToBool(vf) = old.visible)
                        => feedback' = feedback
      ]_vars

\* a record was resubmitted, after the clock moved, with trimmed content "y"
\* and the visibility flag cleared
C3_Witness ==
    /\ response.result = "FeedbackUpdated"
    /\ \E f \in feedback : f.content = <<"y">> /\ ~f.visible /\ f.created_at < now

\* C4 as stated: a resubmission that finds the pair's record leaves that
\* record with the time of the resubmission as its timestamp.
C4_ResubmissionOverwritesTimestamp ==
    [][\A s \in Sessions, rf \in RecipientForms, cf \in ContentForms,
          vf \in VisibleForms :
          ( /\ response' = [client |-> s, result |-> "FeedbackUpdated"]
            /\ GiveFeedback(s, "POST", rf, cf, vf) )
          => \A f \in Matching(feedback', current_user(s), ToInt(rf)) :
                 f.created_at = now
      ]_vars

\* C4 as amended: a resubmission that finds the pair's record overwrites its
\* content and visibility and leaves its timestamp alone: the timestamp
\* stays the time of the first submission.
C4_ResubmissionKeepsTimestamp ==
    [][\A s \in Sessions, rf \in RecipientForms, cf \in ContentForms,
          vf \in VisibleForms :
          ( /\ response' = [client |-> s, result |-> "FeedbackUpdated"]
            /\ GiveFeedback(s, "POST", rf, cf, vf) )
          => \A f \in Matching(feedback, current_user(s), ToInt(rf)) :
                \E g \in feedback' :
                    /\ g.id = f.id
                    /\ g.content = Strip(cf)
                    /\ g.visible = ToBool(vf)
                    /\ g.created_at = f.created_at
      ]_vars

\* a record was resubmitted at a time later than every record's timestamp
C4_Witness ==
    /\ response.result = "FeedbackUpdated"
    /\ \A f \in feedback : f.created_at < now

\* C5: once a user's credential is present, no request replaces or clears it.
C5_CredentialSetOnce ==
    [][\A u \in DOMAIN users :
          users[u].password_hash # NoHash
              => users'[u].password_hash = users[u].password_hash
      ]_vars

\* C6: first login of a user u without credential: login puts the session in
\* the pending state for u; set-password with p1 = p2 = p non-empty stores
\* the credential, clears the pending state and binds the session to u; and
\* from then on the candidates that verify for u stay exactly those (p and
\* nothing else), in any session.
C6_FirstLoginFlow ==
    [][ /\ \A s \in Sessions, e \in EmailForms, p \in PasswordForms :
              LET res == LoginResult(e, p)
              IN  ( /\ Login(s, e, p)
                    /\ res.user # NoId
                    /\ users[res.user].password_hash = NoHash )
                  => session'[s].pre_user_id = res.user
        /\ \A s \in Sessions, p \in PasswordForms, salt \in Salts :
              LET u == session[s].pre_user_id
              IN  ( /\ SetPassword(s, "POST", p, p, salt)
                    /\ u \in DOMAIN users
                    /\ users[u].password_hash = NoHash
                    /\ p # "" )
                  => /\ session'[s] = [user_id |-> u, pre_user_id |-> NoId]
                     /\ \A c \in PasswordForms :
                            check_password_hash(users'[u].password_hash, c)
                                <=> c = p
        /\ \A u \in DOMAIN users, c \in PasswordForms :
              users[u].password_hash # NoHash
                  => ( check_password_hash(users'[u].password_hash, c)
                           <=> check_password_hash(users[u].password_hash, c) )
      ]_vars

ErrorResults == { "UnknownEmail", "InvalidCredential", "PasswordMismatch",
                  "EmptyContent", "NotAuthenticated" }

\* C7: a request that ends in UnknownEmail, InvalidCredential,
\* PasswordMismatch, EmptyContent or NotAuthenticated leaves the Identity
\* Store, the Feedback Store and every session's bound user id unchanged.
C7_ErrorsChangeNothing ==
    [][response'.result \in ErrorResults
          => /\ users' = users
             /\ feedback' = feedback
             /\ \A s \in Sessions : session'[s].user_id = session[s].user_id
      ]_vars

\* a mismatched set-password was answered: the pending user still has no
\* credential and the session is not authenticated
C7_Witness ==
    /\ response.result = "PasswordMismatch"
    /\ LET se == session[response.client]
       IN  /\ se.user_id = NoId
           /\ se.pre_user_id \in DOMAIN users
           /\ users[se.pre_user_id].password_hash = NoHash

\* C8: every Feedback record's recipient and sender is the id of an
\* existing user.
C8_RecordsReferenceExistingUsers ==
    \A f \in feedback :
        f.recipient_id \in DOMAIN users /\ f.sender_id \in DOMAIN users

\* a submission to a recipient id that matches no user was refused at the
\* insert (the id sequence moved on, no row was stored) while the store
\* holds other rows
C8_Witness ==
    /\ response.result = "ServerError"
    /\ feedback # {}
    /\ nextId > Cardinality(feedback) + 1

\* C9: after a logout request the session holds neither a bound user id nor
\* a pending pre-auth user id.
C9_LogoutClearsSession ==
    [][\A s \in Sessions : Logout(s) => session'[s] = EmptySession]_vars

\* C10: once a user u has a credential, a session becomes bound to u only
\* through a login whose password matches u's credential.
C10_BoundOnlyByPasswordLogin ==
    [][\A s \in Sessions, u \in DOMAIN users :
          ( /\ users[u].password_hash # NoHash
            /\ session[s].user_id # u
            /\ session'[s].user_id = u )
          => response' = [client |-> s, result |-> "LoggedIn"]
      ]_vars

====
